---- MODULE Spec2Model ----
(***************************************************************************)
(* Model of package werr (src/werr.go): error values are objects on a      *)
(* heap, the constructors ErrLoc, Error, Errorf, ErrorCodef, ErrorShowf,   *)
(* ErrorCodeShowf allocate on it, and WriteError renders an error chain to *)
(* an http.ResponseWriter and to the log.                                  *)
(***************************************************************************)
EXTENDS Integers, Sequences, FiniteSets, TLC

VARIABLES heap, rng, last

vars == <<heap, rng, last>>

\* ------------------------------------------------------------------ bounds

\* Largest number of error objects alive at once.
MaxHeap == 3

\* ------------------------------------------------------------ error values

\* The nil error interface value.
Nil == 0

\* A nil pointer of type *errDetail held in a non-nil error interface value.
NilDetail == 0 - 1

\* The error a failing ResponseWriter.Write returns (an io error outside the heap).
WriteErr == 0 - 2

\* The outcome of a call that panics, where the call yields a reference or
\* an integer, and where it yields a string.  Every panic of the package is
\* the dereference of a nil *errDetail receiver or a method call on a nil
\* interface; both carry the runtime error NilDeref.
Panic == 0 - 3

NilDeref == "runtime error: invalid memory address or nil pointer dereference"

PanicText == "panic: " \o NilDeref

\* The four capability interfaces.
Caps == {"Coder", "Shower", "IDer", "Locer"}

\* Shape shared by every heap object; kind tells the dynamic type.
\* by and arg are history: the constructor call that allocated the object
\* and the error argument that call was given; no operation reads them.
Blank == [kind |-> "", msg |-> "", err |-> Nil, errs |-> <<>>, code |-> 0,
          show |-> "", loc |-> "", id |-> "", caps |-> {},
          by |-> "", arg |-> Nil]

Made(obj, by, arg) == [obj EXCEPT !.by = by, !.arg = arg]

\* *errors.errorString: the result of errors.New and of fmt.Errorf without %w.
ErrorString(msg) == [Blank EXCEPT !.kind = "errorString", !.msg = msg]

\* *fmt.wrapError: the result of fmt.Errorf with one %w operand.
WrapError(msg, err) == [Blank EXCEPT !.kind = "wrapError", !.msg = msg, !.err = err]

\* *fmt.wrapErrors: the result of fmt.Errorf with several %w operands (go1.20
\* and later); it has Unwrap() []error and no Unwrap() error.
WrapErrors(msg, errs) ==
    [Blank EXCEPT !.kind = "wrapErrors", !.msg = msg, !.errs = errs]

\* *errDetail with its five fields.
errDetail(code, show, loc, err, id) ==
    [Blank EXCEPT !.kind = "errDetail", !.code = code, !.show = show,
                  !.loc = loc, !.err = err, !.id = id]

\* An error type of the application that implements some of the capability
\* interfaces and has no Unwrap method.
AppError(msg, caps, code, show, id, loc) ==
    [Blank EXCEPT !.kind = "appError", !.msg = msg, !.caps = caps,
                  !.code = code, !.show = show, !.id = id, !.loc = loc]

Refs(h) == 1..Len(h)

IsDetail(h, r) == r \in Refs(h) /\ h[r].kind = "errDetail"

\* ------------------------------------------------------------- formatting

HexDigits == <<"0", "1", "2", "3", "4", "5", "6", "7",
               "8", "9", "A", "B", "C", "D", "E", "F">>

\* fmt's %X of a non-negative integer: uppercase hex, no padding.
RECURSIVE Hex(_)
Hex(n) == IF n < 16 THEN HexDigits[n + 1]
          ELSE Hex(n \div 16) \o HexDigits[(n % 16) + 1]

\* The backquote U+0060.  A string literal holds it only when an apostrophe
\* follows, so it is taken out of such a literal.
Backquote == SubSeq("`'", 1, 1)

\* strconv.Quote works rune by rune (appendEscapedRune).  The printable
\* ASCII characters (U+0020 to U+007E) other than the double quote and the
\* backslash stay as they are.
Unescaped ==
    LET chars == " !#$%&'()*+,-./0123456789:;<=>?@ABCDEFGHIJKLMNOPQRSTUVWXYZ[]^_abcdefghijklmnopqrstuvwxyz{|}~"
    IN {SubSeq(chars, i, i) : i \in 1..Len(chars)} \cup {Backquote}

\* The ASCII control characters U+0001 to U+001F, in order: Controls[n] is
\* the character of code n.  No string of the model holds U+0000.
Controls == <<"", "", "", "", "", "", "", "",
              "\t", "\n", "", "\f", "\r", "", "", "",
              "", "", "", "", "", "", "", "",
              "", "", "", "", "", "", "">>

\* U+007F.
Del == ""

LowerHex == <<"0", "1", "2", "3", "4", "5", "6", "7",
              "8", "9", "a", "b", "c", "d", "e", "f">>

\* The escape of one rune that does not stay as it is: \" and \\, the named
\* escapes \a \b \f \n \r \t \v, and \x with two hex digits for every other
\* control character and for U+007F.  A rune outside ASCII is outside the
\* strings of the model.
EscapeRune(c) ==
    CASE c = "\"" -> "\\\""
      [] c = "\\" -> "\\\\"
      [] c = Controls[7] -> "\\a"
      [] c = Controls[8] -> "\\b"
      [] c = "\f" -> "\\f"
      [] c = "\n" -> "\\n"
      [] c = "\r" -> "\\r"
      [] c = "\t" -> "\\t"
      [] c = Controls[11] -> "\\v"
      [] c = Del -> "\\x7f"
      [] \E i \in (1..6) \cup (14..31) : c = Controls[i] ->
             LET n == CHOOSE i \in 1..31 : c = Controls[i]
             IN "\\x" \o LowerHex[(n \div 16) + 1] \o LowerHex[(n % 16) + 1]

\* The escaped text of s from its i-th rune on.
RECURSIVE EscapeFrom(_, _)
EscapeFrom(s, i) ==
    IF i > Len(s) THEN ""
    ELSE LET c == SubSeq(s, i, i)
         IN (IF c \in Unescaped THEN c ELSE EscapeRune(c))
            \o EscapeFrom(s, i + 1)

Escape(s) == EscapeFrom(s, 1)

\* fmt's %q of a string (strconv.Quote): double quotes around the escaped text.
Quote(s) == "\"" \o Escape(s) \o "\""

\* The process-wide source of math/rand: rand.Int63 returns a value computed
\* from the state of the source and advances it.
Int63(s) == s

SeedAfter(s) == (s * 13 + 7) % 4096

\* mkid: the %X rendering of the value rand.Int63 returns.
mkid(s) == Hex(Int63(s))

\* fmt.Sprintf("%s:%v", file, line) over the frame runtime.Caller(1) reports.
LocOf(site) == site.file \o ":" \o ToString(site.line)

\* errors.Unwrap: errDetail.Unwrap, fmt.wrapError.Unwrap; Nil for nil and for
\* a type without an Unwrap() error method.  errDetail.Unwrap reads e.err, so
\* on a nil *errDetail it panics.
Unwrap(h, r) ==
    IF r = NilDetail THEN Panic
    ELSE IF r \in Refs(h) /\ h[r].kind \in {"errDetail", "wrapError"}
    THEN h[r].err ELSE Nil

\* Whether r.Error() panics: a method call on the nil interface does, and
\* errDetail.Error calls e.err.Error() first, so it does on a nil receiver
\* and whenever the Error method of its err does.  The other types return a
\* stored text.
RECURSIVE ErrorPanics(_, _)
ErrorPanics(h, r) ==
    \/ r \notin Refs(h)
    \/ h[r].kind = "errDetail" /\ ErrorPanics(h, h[r].err)

\* The Error() method of each dynamic type.
RECURSIVE ErrorText(_, _)
ErrorText(h, r) ==
    IF ErrorPanics(h, r) THEN PanicText
    ELSE IF h[r].kind = "errDetail"
    THEN "errDetail: id=" \o Quote(h[r].id)
         \o ", code=" \o ToString(h[r].code)
         \o ", show=" \o Quote(h[r].show)
         \o ", loc=" \o Quote(h[r].loc)
         \o ", err: " \o ErrorText(h, h[r].err)
    ELSE h[r].msg

\* A format string is a sequence of pieces: a verb (%d %v %s %w) consumes the
\* next operand, any other piece is literal text.  An operand is
\* [int |-> n], [str |-> s] or [err |-> ref].
Verbs == {"%d", "%v", "%s", "%w"}

\* The verb character fmt names in its %!verb(...) reports.
VerbChar(verb) ==
    CASE verb = "%d" -> "d" [] verb = "%v" -> "v"
      [] verb = "%s" -> "s" [] verb = "%w" -> "w"

\* reflect's name of the dynamic type of an operand.  An operand of another
\* type (an application error type) is outside the modelled formats.
TypeName(h, a) ==
    CASE "int" \in DOMAIN a -> "int"
      [] "str" \in DOMAIN a -> "string"
      [] "err" \in DOMAIN a /\ a.err = NilDetail -> "*werr.errDetail"
      [] "err" \in DOMAIN a /\ a.err \in Refs(h)
             /\ h[a.err].kind = "errorString" -> "*errors.errorString"
      [] "err" \in DOMAIN a /\ a.err \in Refs(h)
             /\ h[a.err].kind = "wrapError" -> "*fmt.wrapError"
      [] "err" \in DOMAIN a /\ a.err \in Refs(h)
             /\ h[a.err].kind = "wrapErrors" -> "*fmt.wrapErrors"
      [] "err" \in DOMAIN a /\ a.err \in Refs(h)
             /\ h[a.err].kind = "errDetail" -> "*werr.errDetail"

\* A non-nil error operand under a verb that calls its Error method (fmt's
\* handleMethods): fmt recovers a panic of the method (catchPanic) and prints
\* <nil> when the operand is a nil pointer, a %!verb(PANIC=...) report
\* otherwise.  verb is the verb in effect: v for %v and for %w.
ErrorOperand(h, verb, r) ==
    IF r = NilDetail THEN "<nil>"
    ELSE IF ErrorPanics(h, r)
    THEN "%!" \o verb \o "(PANIC=Error method: " \o NilDeref \o ")"
    ELSE ErrorText(h, r)

\* An operand under %v.
Plain(h, a) ==
    IF "int" \in DOMAIN a THEN ToString(a.int)
    ELSE IF "str" \in DOMAIN a THEN a.str
    ELSE IF a.err = Nil THEN "<nil>"
    ELSE ErrorOperand(h, "v", a.err)

\* One operand under one verb.  wrapErrs is set by fmt.Errorf alone: only
\* there is %w a verb, and it formats an error operand as %v does.  A verb
\* the operand's type does not take yields fmt's %!verb(type=value) report;
\* for an error operand that report prints the value by reflection, which is
\* modelled for a nil *errDetail (a nil pointer) and for *errors.errorString
\* (a struct of one string) only: the other types print an address.
Operand(h, verb, a, wrapErrs) ==
    IF "int" \in DOMAIN a
    THEN IF verb \in {"%d", "%v"} THEN ToString(a.int)
         ELSE "%!" \o VerbChar(verb) \o "(int=" \o ToString(a.int) \o ")"
    ELSE IF "str" \in DOMAIN a
    THEN IF verb \in {"%s", "%v"} THEN a.str
         ELSE "%!" \o VerbChar(verb) \o "(string=" \o a.str \o ")"
    ELSE IF a.err = Nil
    THEN IF verb = "%v" THEN "<nil>" ELSE "%!" \o VerbChar(verb) \o "(<nil>)"
    ELSE IF verb \in {"%v", "%s"}
    THEN ErrorOperand(h, VerbChar(verb), a.err)
    ELSE IF verb = "%w" /\ wrapErrs
    THEN ErrorOperand(h, "v", a.err)
    ELSE CASE a.err = NilDetail /\ verb = "%w" ->
                  "%!w(" \o TypeName(h, a) \o "=<nil>)"
           [] a.err = NilDetail /\ verb = "%d" -> "0"
           [] a.err \in Refs(h) /\ h[a.err].kind = "errorString" /\ verb = "%w" ->
                  "%!w(" \o TypeName(h, a) \o "=&{" \o h[a.err].msg \o "})"
           [] a.err \in Refs(h) /\ h[a.err].kind = "errorString" /\ verb = "%d" ->
                  "&{%!d(string=" \o h[a.err].msg \o ")}"

\* The operands no verb consumed, as fmt lists them: type=value, ...
RECURSIVE ExtraList(_, _)
ExtraList(h, args) ==
    (IF "err" \in DOMAIN Head(args) /\ Head(args).err = Nil THEN "<nil>"
     ELSE TypeName(h, Head(args)) \o "=" \o Plain(h, Head(args)))
    \o (IF Len(args) = 1 THEN "" ELSE ", " \o ExtraList(h, Tail(args)))

\* Whether the toolchain is go1.20 or later, where fmt.Errorf takes several
\* %w verbs; before, a second %w with an error operand is reported as a bad
\* verb and the result wraps nothing.
GoMultiWrap == TRUE

\* An operand that is a non-nil error value.
IsErr(a) == "err" \in DOMAIN a /\ a.err # Nil

\* fmt's doPrintf: a verb without an operand prints %!verb(MISSING), operands
\* left over print %!(EXTRA ...).  mode is "on" while %w is a verb (within
\* fmt.Errorf), "taken" once a %w has taken its error before go1.20, and
\* "off" otherwise.
RECURSIVE Printf(_, _, _, _)
Printf(h, fmtstr, args, mode) ==
    IF fmtstr = <<>>
    THEN IF args = <<>> THEN "" ELSE "%!(EXTRA " \o ExtraList(h, args) \o ")"
    ELSE IF Head(fmtstr) \in Verbs
    THEN IF args = <<>>
         THEN "%!" \o VerbChar(Head(fmtstr)) \o "(MISSING)"
              \o Printf(h, Tail(fmtstr), args, mode)
         ELSE Operand(h, Head(fmtstr), Head(args), mode = "on")
              \o Printf(h, Tail(fmtstr), Tail(args),
                        IF GoMultiWrap \/ Head(fmtstr) # "%w" \/ ~IsErr(Head(args))
                        THEN mode
                        ELSE IF mode = "on" THEN "taken" ELSE "off")
    ELSE Head(fmtstr) \o Printf(h, Tail(fmtstr), args, mode)

\* fmt.Sprintf.
Sprintf(h, fmtstr, args) == Printf(h, fmtstr, args, "off")

\* The operands the %w verbs of fmtstr consume, in order.
RECURSIVE WrapOperands(_, _)
WrapOperands(fmtstr, args) ==
    IF fmtstr = <<>> \/ args = <<>> THEN <<>>
    ELSE IF Head(fmtstr) = "%w"
    THEN <<Head(args)>> \o WrapOperands(Tail(fmtstr), Tail(args))
    ELSE IF Head(fmtstr) \in Verbs THEN WrapOperands(Tail(fmtstr), Tail(args))
    ELSE WrapOperands(Tail(fmtstr), args)

\* The errors among them.
WrapErrs(fmtstr, args) ==
    LET e == SelectSeq(WrapOperands(fmtstr, args), IsErr)
    IN [i \in 1..Len(e) |-> e[i].err]

\* The errors the result of fmt.Errorf wraps: from go1.20 every error operand
\* of a %w; before, the only one, and none when there are several.
Wrapped(fmtstr, args) ==
    IF GoMultiWrap \/ Len(WrapErrs(fmtstr, args)) = 1
    THEN WrapErrs(fmtstr, args) ELSE <<>>

\* The error the result of fmt.Errorf unwraps to (errors.Unwrap), Nil when
\* it wraps none or several.
WrappedOperand(fmtstr, args) ==
    IF (~GoMultiWrap \/ Len(WrapOperands(fmtstr, args)) = 1)
       /\ Len(Wrapped(fmtstr, args)) = 1
    THEN Wrapped(fmtstr, args)[1] ELSE Nil

\* fmt.Errorf.  From go1.20: an errorString without %w, a wrapError for one
\* %w (around nil when its operand is no error), a wrapErrors for several.
\* Before: a wrapError when exactly one %w took an error, else an errorString.
FmtErrorf(h, fmtstr, args) ==
    LET msg == Printf(h, fmtstr, args, "on")
    IN IF GoMultiWrap
       THEN CASE Len(WrapOperands(fmtstr, args)) = 0 -> ErrorString(msg)
              [] Len(WrapOperands(fmtstr, args)) = 1 ->
                     WrapError(msg, WrappedOperand(fmtstr, args))
              [] OTHER -> WrapErrors(msg, WrapErrs(fmtstr, args))
       ELSE IF Len(Wrapped(fmtstr, args)) = 1
            THEN WrapError(msg, WrappedOperand(fmtstr, args))
            ELSE ErrorString(msg)

\* ----------------------------------------------------------- constructors
\* Each constructor maps the heap, its inputs, the frame of its caller (site)
\* and the state of the random source (s) to [heap, ret, rng]: the heap after
\* the call, the error value returned and the state of the random source.

\* ErrLoc formatting err with %v: the text is the same, the chain is cut.
ErrLoc_Verb(h, err, site, s) ==
    IF err = Nil THEN [heap |-> h, ret |-> Nil, rng |-> s]
    ELSE [heap |-> Append(h, Made(FmtErrorf(h, <<"%s", ":", "%v", " :: ", "%v">>,
                                            <<[str |-> site.file],
                                              [int |-> site.line],
                                              [err |-> err]>>),
                                  "ErrLoc", err)),
          ret |-> Len(h) + 1, rng |-> s]

\* ErrLoc without its nil check.
ErrLoc_NoNilCheck(h, err, site, s) ==
    [heap |-> Append(h, Made(FmtErrorf(h, <<"%s", ":", "%v", " :: ", "%w">>,
                                       <<[str |-> site.file], [int |-> site.line],
                                         [err |-> err]>>),
                             "ErrLoc", err)),
     ret |-> Len(h) + 1, rng |-> s]

ErrLoc(h, err, site, s) ==
    IF err = Nil THEN [heap |-> h, ret |-> Nil, rng |-> s]
    ELSE [heap |-> Append(h, Made(FmtErrorf(h, <<"%s", ":", "%v", " :: ", "%w">>,
                                            <<[str |-> site.file],
                                              [int |-> site.line],
                                              [err |-> err]>>),
                                  "ErrLoc", err)),
          ret |-> Len(h) + 1, rng |-> s]

\* Error without the *errDetail type assertion: every non-nil cause is wrapped.
Error_AlwaysWraps(h, cause, site, s) ==
    IF cause = Nil \/ cause = NilDetail THEN [heap |-> h, ret |-> Nil, rng |-> s]
    ELSE LET h1 == Append(h, FmtErrorf(h, <<"%w">>, <<[err |-> cause]>>))
         IN [heap |-> Append(h1, Made(errDetail(0, "", LocOf(site), Len(h1), mkid(s)),
                                      "Error", cause)),
             ret |-> Len(h1) + 1, rng |-> SeedAfter(s)]

Error(h, cause, site, s) ==
    IF cause = NilDetail \/ IsDetail(h, cause)
    THEN [heap |-> h, ret |-> IF cause = NilDetail THEN Nil ELSE cause, rng |-> s]
    ELSE IF cause = Nil THEN [heap |-> h, ret |-> Nil, rng |-> s]
    ELSE LET h1 == Append(h, FmtErrorf(h, <<"%w">>, <<[err |-> cause]>>))
         IN [heap |-> Append(h1, Made(errDetail(0, "", LocOf(site), Len(h1), mkid(s)),
                                      "Error", cause)),
             ret |-> Len(h1) + 1, rng |-> SeedAfter(s)]

Errorf(h, fmtstr, args, site, s) ==
    LET h1 == Append(h, FmtErrorf(h, fmtstr, args))
    IN [heap |-> Append(h1, Made(errDetail(0, "", LocOf(site), Len(h1), mkid(s)),
                                 "Errorf", WrappedOperand(fmtstr, args))),
        ret |-> Len(h1) + 1, rng |-> SeedAfter(s)]

ErrorCodef(h, code, fmtstr, args, site, s) ==
    LET h1 == Append(h, FmtErrorf(h, fmtstr, args))
    IN [heap |-> Append(h1, Made(errDetail(code, "", LocOf(site), Len(h1), mkid(s)),
                                 "ErrorCodef", WrappedOperand(fmtstr, args))),
        ret |-> Len(h1) + 1, rng |-> SeedAfter(s)]

ErrorShowf(h, cause, fmtstr, args, site, s) ==
    LET show == Sprintf(h, fmtstr, args)
        h1 == IF cause = Nil THEN Append(h, ErrorString(show)) ELSE h
        c1 == IF cause = Nil THEN Len(h1) ELSE cause
    IN [heap |-> Append(h1, Made(errDetail(0, show, LocOf(site), c1, mkid(s)),
                                 "ErrorShowf", cause)),
        ret |-> Len(h1) + 1, rng |-> SeedAfter(s)]

ErrorCodeShowf(h, code, cause, fmtstr, args, site, s) ==
    LET show == Sprintf(h, fmtstr, args)
        h1 == IF cause = Nil THEN Append(h, ErrorString(show)) ELSE h
        c1 == IF cause = Nil THEN Len(h1) ELSE cause
    IN [heap |-> Append(h1, Made(errDetail(code, show, LocOf(site), c1, mkid(s)),
                                 "ErrorCodeShowf", cause)),
        ret |-> Len(h1) + 1, rng |-> SeedAfter(s)]

\* ------------------------------------------------------------ capabilities

\* Whether the dynamic type of r implements the capability interface.  The
\* methods of *errDetail belong to the type, so a nil *errDetail implements
\* all four.
Implements(h, r, cap) ==
    \/ r = NilDetail
    \/ r \in Refs(h) /\ h[r].kind = "errDetail"
    \/ r \in Refs(h) /\ h[r].kind = "appError" /\ cap \in h[r].caps

\* errors.As(err, &target) for a capability interface target: the first error
\* of the Unwrap chain whose type implements it, Nil when there is none.  As
\* tests the type alone, so it stops at a nil *errDetail and yields it.
RECURSIVE As(_, _, _)
RECURSIVE AsAny(_, _, _)
As(h, err, cap) ==
    IF err = Nil THEN Nil
    ELSE IF Implements(h, err, cap) THEN err
    ELSE IF h[err].kind = "wrapErrors" THEN AsAny(h, h[err].errs, cap)
    ELSE As(h, Unwrap(h, err), cap)

\* errors.As over the result of Unwrap() []error: depth first, in order.
AsAny(h, errs, cap) ==
    IF errs = <<>> THEN Nil
    ELSE IF As(h, Head(errs), cap) # Nil THEN As(h, Head(errs), cap)
    ELSE AsAny(h, Tail(errs), cap)

\* The capability methods.  Those of *errDetail read a field of the
\* receiver, so on a nil *errDetail they panic.
ErrorCode(h, r) ==
    IF r = NilDetail THEN Panic
    ELSE IF h[r].kind = "errDetail" /\ h[r].code = 0 THEN 500 ELSE h[r].code

ErrorShow(h, r) == IF r = NilDetail THEN PanicText ELSE h[r].show

ErrorID(h, r) == IF r = NilDetail THEN PanicText ELSE h[r].id

ErrorLoc(h, r) == IF r = NilDetail THEN PanicText ELSE h[r].loc

\* ---------------------------------------------------------------- renderer
\* Steps of a call, in the order they happen.  A panic is the last step of
\* the call: nothing after it happens and the call does not return.
LogLine(s) == [ev |-> "log", s |-> s, n |-> 0, ok |-> TRUE]
HeaderSet(k, v) == [ev |-> "Header.Set", s |-> k \o ": " \o v, n |-> 0, ok |-> TRUE]
StatusWrite(c) == [ev |-> "WriteHeader", s |-> "", n |-> c, ok |-> TRUE]
BodyWrite(s, ok) == [ev |-> "Write", s |-> s, n |-> 0, ok |-> ok]
Panicked == [ev |-> "panic", s |-> NilDeref, n |-> 0, ok |-> FALSE]

\* log.Printf("Error: %s", err.Error()): err.Error() is evaluated first.
LogOf(h, err) ==
    IF ErrorPanics(h, err) THEN Panicked
    ELSE LogLine("Error: " \o ErrorText(h, err))

\* The status code WriteError passes to WriteHeader.
StatusOf(h, err) ==
    IF As(h, err, "Coder") # Nil THEN ErrorCode(h, As(h, err, "Coder")) ELSE 500

\* The showText WriteError prints first.
ShowTextOf(h, err) ==
    LET showText == IF As(h, err, "Shower") # Nil
                    THEN ErrorShow(h, As(h, err, "Shower")) ELSE ""
    IN IF showText = "" THEN "internal error" ELSE showText

\* The text of the second Fprintf, when an ErrorIDer is found.
IDTextOf(h, err) == " [ID:" \o ErrorID(h, As(h, err, "IDer")) \o "]"

\* The statements of WriteError after its nil check, in order, where the
\* Write calls of w whose ordinal is in fails return an error.  A method
\* call on the target errors.As has set panics when the target holds a nil
\* *errDetail.
StepsOf(h, err, fails) ==
    <<LogOf(h, err),
      HeaderSet("Content-Type", "text/plain"),
      IF As(h, err, "Coder") = NilDetail THEN Panicked
      ELSE StatusWrite(StatusOf(h, err)),
      IF As(h, err, "Shower") = NilDetail THEN Panicked
      ELSE BodyWrite(ShowTextOf(h, err), 1 \notin fails)>>
    \o (IF As(h, err, "IDer") = Nil THEN <<>>
        ELSE IF As(h, err, "IDer") = NilDetail THEN <<Panicked>>
        ELSE <<BodyWrite(IDTextOf(h, err), 2 \notin fails)>>)

\* Whether a panic ends the call.
Panics(steps) == \E i \in 1..Len(steps) : steps[i].ev = "panic"

\* The steps that happen: those before the first panic.
RECURSIVE Done(_)
Done(steps) ==
    IF steps = <<>> \/ Head(steps).ev = "panic" THEN <<>>
    ELSE <<Head(steps)>> \o Done(Tail(steps))

\* The effects of WriteError(w, err) on the log and on w.
EffectsOf(h, err, fails) == Done(StepsOf(h, err, fails))

\* The value WriteError returns: ret is assigned by the first write and
\* assigned again by the second when that one happens.  Panic when the call
\* does not return.
ReturnOf(h, err, fails) ==
    LET ret1 == IF 1 \in fails THEN WriteErr ELSE Nil
    IN IF Panics(StepsOf(h, err, fails)) THEN Panic
       ELSE IF As(h, err, "IDer") # Nil
       THEN (IF 2 \in fails THEN WriteErr ELSE Nil)
       ELSE ret1

\* WriteError without its nil check.
WriteError_NoNilCheck(h, err, fails) ==
    [trace |-> EffectsOf(h, err, fails), ret |-> ReturnOf(h, err, fails)]

WriteError(h, err, fails) ==
    IF err = Nil THEN [trace |-> <<>>, ret |-> Nil]
    ELSE [trace |-> EffectsOf(h, err, fails), ret |-> ReturnOf(h, err, fails)]

\* ------------------------------------------------------------------ inputs

\* The call site of each constructor in the application's handler, as
\* runtime.Caller(1) reports it.
SiteOf(op) ==
    [file |-> "h.go",
     line |-> CASE op = "ErrLoc" -> 20
                [] op = "Error" -> 26
                [] op = "Errorf" -> 32
                [] op = "ErrorCodef" -> 38
                [] op = "ErrorShowf" -> 44
                [] OTHER -> 50]

\* Status codes the application passes to ErrorCodef and ErrorCodeShowf.  The
\* unset code 0 is what Error, Errorf and ErrorShowf leave in the field.
Codes == {404}

\* Format string and operands of the show message: "" and "msg %d" with 7.
ShowInputs == {[f |-> <<>>, a |-> <<>>],
               [f |-> <<"msg ", "%d">>, a |-> <<[int |-> 7]>>]}

\* The non-nil error values a handler can hold: the objects of the heap and
\* the nil *errDetail.
Errors(h) == Refs(h) \cup {NilDetail}

\* Format string and operands of Errorf and ErrorCodef: "fail" and
\* "fail: %w" with a non-nil error.
ErrorfInputs(h) ==
    {[f |-> <<"fail">>, a |-> <<>>]}
    \cup {[f |-> <<"fail: ", "%w">>, a |-> <<[err |-> r]>>] : r \in Errors(h)}

\* Capability sets of the application's own error type.
AppCaps == {{"Coder", "Shower"}, {"IDer"}}

\* Which Write calls of the ResponseWriter fail.
FailModes == SUBSET {1, 2}

\* ----------------------------------------------------------------- actions

\* The record of the last call: its operation, its error argument, the heap
\* size and random source before it, what it returned, and (for WriteError)
\* its effects in order and the failing writes of its ResponseWriter.
Call(op, arg, pre, seed, ret, trace, fails) ==
    [op |-> op, arg |-> arg, pre |-> pre, seed |-> seed, ret |-> ret,
     trace |-> trace, fails |-> fails]

\* The error the application's own code hands to the package: errors.New or
\* a value of its own error type.
AppErrors ==
    {ErrorString("boom")}
    \cup {AppError("teapot", caps, 418, "short and stout", "APP1", "app.go:7") :
              caps \in AppCaps}

Init ==
    /\ \E e \in AppErrors : heap = <<Made(e, "app", Nil)>>
    /\ rng = 2748
    /\ last = Call("init", Nil, 0, 2748, Nil, <<>>, {})

\* A handler builds its error with the constructors and hands it to WriteError
\* last: once the response is written the request is over.
Step(op, arg, r) ==
    /\ last.op # "WriteError"
    /\ Len(r.heap) <= MaxHeap
    /\ heap' = r.heap
    /\ rng' = r.rng
    /\ last' = Call(op, arg, Len(heap), rng, r.ret, <<>>, {})

CallErrLoc ==
    \E err \in Errors(heap) \cup {Nil} :
        Step("ErrLoc", err, ErrLoc(heap, err, SiteOf("ErrLoc"), rng))

CallError ==
    \E cause \in Errors(heap) \cup {Nil} :
        Step("Error", cause, Error(heap, cause, SiteOf("Error"), rng))

CallErrorf ==
    \E in \in ErrorfInputs(heap) :
        Step("Errorf", WrappedOperand(in.f, in.a),
             Errorf(heap, in.f, in.a, SiteOf("Errorf"), rng))

CallErrorCodef ==
    \E code \in Codes, in \in ErrorfInputs(heap) :
        Step("ErrorCodef", WrappedOperand(in.f, in.a),
             ErrorCodef(heap, code, in.f, in.a, SiteOf("ErrorCodef"), rng))

CallErrorShowf ==
    \E cause \in Errors(heap) \cup {Nil}, in \in ShowInputs :
        Step("ErrorShowf", cause,
             ErrorShowf(heap, cause, in.f, in.a, SiteOf("ErrorShowf"), rng))

CallErrorCodeShowf ==
    \E code \in Codes, cause \in Errors(heap) \cup {Nil}, in \in ShowInputs :
        Step("ErrorCodeShowf", cause,
             ErrorCodeShowf(heap, code, cause, in.f, in.a,
                            SiteOf("ErrorCodeShowf"), rng))

CallWriteError ==
    \E err \in Errors(heap) \cup {Nil}, fails \in FailModes :
        LET r == WriteError(heap, err, fails)
        IN /\ last.op # "WriteError"
           /\ heap' = heap
           /\ rng' = rng
           /\ last' = Call("WriteError", err, Len(heap), rng, r.ret, r.trace, fails)

Next ==
    \/ CallErrLoc
    \/ CallError
    \/ CallErrorf
    \/ CallErrorCodef
    \/ CallErrorShowf
    \/ CallErrorCodeShowf
    \/ CallWriteError

Spec == Init /\ [][Next]_vars

\* ------------------------------------------------------------- properties

\* The last call rendered a non-nil error.
Rendered == last.op = "WriteError" /\ last.arg # Nil

\* The last call rendered the result of an ErrLoc call.
Located ==
    Rendered /\ last.arg \in Refs(heap) /\ heap[last.arg].by = "ErrLoc"

\* The errors of the Unwrap chain of r, outermost first.  A nil *errDetail
\* is a non-nil error value and the last of its chain.
RECURSIVE Chain(_, _)
Chain(h, r) ==
    IF r = Nil THEN <<>>
    ELSE IF r = NilDetail THEN <<NilDetail>>
    ELSE <<r>> \o Chain(h, Unwrap(h, r))

\* The errors of the chain of r whose type provides a capability, outermost
\* first.
Providers(h, r, cap) ==
    LET Has(x) == \/ x = NilDetail
                  \/ x # NilDetail /\ h[x].kind = "errDetail"
                  \/ x # NilDetail /\ h[x].kind = "appError" /\ cap \in h[x].caps
    IN SelectSeq(Chain(h, r), Has)

\* The first provider of the capability in the chain of r is a nil *errDetail.
NilProvider(h, r, cap) ==
    Providers(h, r, cap) # <<>> /\ Providers(h, r, cap)[1] = NilDetail

\* The Annotated Errors of the chain of r, outermost first.
Details(h, r) ==
    LET Is(x) == x # NilDetail /\ h[x].kind = "errDetail"
    IN SelectSeq(Chain(h, r), Is)

\* What a provider carries; a nil *errDetail carries no code, text or ID.
Carried(h, x) == IF x = NilDetail THEN Blank ELSE h[x]

\* The status, body text and ID suffix the specification asks of Render.
ExpectedStatus(h, r) ==
    LET p == Providers(h, r, "Coder")
    IN IF p = <<>> THEN 500
       ELSE IF Carried(h, p[1]).kind # "appError" /\ Carried(h, p[1]).code = 0
       THEN 500
       ELSE Carried(h, p[1]).code

ExpectedText(h, r) ==
    LET p == Providers(h, r, "Shower")
    IN IF p = <<>> \/ Carried(h, p[1]).show = "" THEN "internal error"
       ELSE Carried(h, p[1]).show

ExpectedSuffix(h, r) ==
    LET p == Providers(h, r, "IDer")
    IN IF p = <<>> THEN "" ELSE " [ID:" \o Carried(h, p[1]).id \o "]"

\* The status codes written, and the bytes handed to Write, in order.
Statuses(trace) ==
    LET Is(e) == e.ev = "WriteHeader" IN SelectSeq(trace, Is)

RECURSIVE Written(_)
Written(trace) ==
    IF trace = <<>> THEN ""
    ELSE (IF Head(trace).ev = "Write" THEN Head(trace).s ELSE "")
         \o Written(Tail(trace))

RECURSIVE Accepted(_)
Accepted(trace) ==
    IF trace = <<>> THEN ""
    ELSE (IF Head(trace).ev = "Write" /\ Head(trace).ok THEN Head(trace).s ELSE "")
         \o Accepted(Tail(trace))

AllWritesOk(trace) ==
    \A i \in 1..Len(trace) : trace[i].ev = "Write" => trace[i].ok

\* C1: whenever WriteError returns, it returns a non-nil error if its body
\* write or its ID-suffix write failed, and nil only when every write
\* succeeded.
C1_WriteFailureSurfaced ==
    Rendered /\ last.ret # Panic =>
        (last.ret = Nil <=> AllWritesOk(last.trace))

\* C2: an Annotated Error built by Error, ErrorShowf or ErrorCodeShowf around
\* a non-nil cause unwraps, in one step, to that very cause.
C2_UnwrapRoundTrip ==
    (/\ last.op \in {"Error", "ErrorShowf", "ErrorCodeShowf"}
     /\ last.arg \in Refs(heap)
     /\ Len(heap) > last.pre)
    => Unwrap(heap, last.ret) = last.arg

\* C3: Error(Error(e)) is the very value Error(e) returned: whatever non-nil
\* value Error returns is an Annotated Error, and Error given an Annotated
\* Error returns it, allocates nothing, draws no ID and leaves every object
\* (id, loc, code, show, err) as it was.
C3_WrapIdempotent ==
    last.op = "Error" =>
        /\ last.ret # Nil => IsDetail(heap, last.ret)
        /\ IsDetail(heap, last.arg) =>
               last.ret = last.arg /\ Len(heap) = last.pre /\ rng = last.seed
        /\ last.ret # Nil =>
               Error(heap, last.ret, SiteOf("Error"), rng)
                   = [heap |-> heap, ret |-> last.ret, rng |-> rng]

\* The second Error call happened, on the result of a first one.
C3_Witness ==
    /\ last.op = "Error"
    /\ IsDetail(heap, last.arg)
    /\ heap[last.arg].by = "Error"
    /\ last.ret = last.arg

\* C4: for every non-nil err, WriteError writes exactly one status code: that
\* of the first Coder of the chain, 500 when the chain has none; an Annotated
\* Error with the code unset gives 500, one built by ErrorCodef or
\* ErrorCodeShowf with a non-zero code c gives c.
C4_Status ==
    Rendered =>
        /\ Statuses(last.trace) = <<StatusWrite(ExpectedStatus(heap, last.arg))>>
        /\ IsDetail(heap, last.arg) /\ heap[last.arg].code = 0 =>
               Statuses(last.trace) = <<StatusWrite(500)>>
        /\ IsDetail(heap, last.arg) /\ heap[last.arg].code # 0 =>
               Statuses(last.trace) = <<StatusWrite(heap[last.arg].code)>>

\* C5: for every non-nil err, the bytes WriteError hands to the sink are the
\* show text of the first Shower of the chain (or "internal error" when there
\* is none or its text is empty) followed by " [ID:<id>]" for the first IDer
\* of the chain (or by nothing); they are the body when no write fails; an
\* error with no capability in its chain gets 500 and exactly
\* "internal error".
C5_Body ==
    Rendered =>
        /\ Written(last.trace)
               = ExpectedText(heap, last.arg) \o ExpectedSuffix(heap, last.arg)
        /\ last.fails = {} => Accepted(last.trace) = Written(last.trace)
        /\ (\A cap \in Caps : Providers(heap, last.arg, cap) = <<>>) =>
               /\ Statuses(last.trace) = <<StatusWrite(500)>>
               /\ Written(last.trace) = "internal error"

\* C6 as stated, on the calls that return: rendering ErrLoc(err), for err
\* plain or Annotated, writes 500 and exactly "internal error".
C6_LocatedIsPlain ==
    (/\ Located
     /\ last.ret # Panic
     /\ \A i \in 1..Len(Chain(heap, last.arg)) :
            /\ Chain(heap, last.arg)[i] # NilDetail
            /\ heap[Chain(heap, last.arg)[i]].kind # "appError")
    => /\ Statuses(last.trace) = <<StatusWrite(500)>>
       /\ Written(last.trace) = "internal error"

\* C6 amended: the result of ErrLoc(err) has no capability of its own and
\* unwraps to err, so rendering it takes status, body text and ID from the
\* first providers of the chain of err: 500 and exactly "internal error"
\* when that chain has none; and when the first Coder of that chain is a nil
\* *errDetail the call panics at the Coder probe, after the log line and the
\* header, with no status and no body written.
C6_LocatedIsTransparent ==
    Located =>
        LET err == heap[last.arg].arg
        IN /\ \A cap \in Caps : ~Implements(heap, last.arg, cap)
           /\ Unwrap(heap, last.arg) = err
           /\ ~NilProvider(heap, err, "Coder") =>
                  Statuses(last.trace) = <<StatusWrite(ExpectedStatus(heap, err))>>
           /\ (\A cap \in Caps : ~NilProvider(heap, err, cap)) =>
                  /\ last.ret # Panic
                  /\ Written(last.trace)
                         = ExpectedText(heap, err) \o ExpectedSuffix(heap, err)
           /\ (\A cap \in Caps : Providers(heap, err, cap) = <<>>) =>
                  /\ Statuses(last.trace) = <<StatusWrite(500)>>
                  /\ Written(last.trace) = "internal error"
           /\ NilProvider(heap, err, "Coder") =>
                  /\ last.ret = Panic
                  /\ Len(last.trace) = 2
                  /\ last.trace[1].ev = "log"
                  /\ last.trace[2] = HeaderSet("Content-Type", "text/plain")

\* ErrLoc of an Annotated Error with code 404 was rendered.
C6_Witness ==
    /\ Located
    /\ IsDetail(heap, heap[last.arg].arg)
    /\ Statuses(last.trace) = <<StatusWrite(404)>>

\* C7: for every non-nil err, whether or not writes fail, the effects of
\* WriteError are, in this order and with nothing else: one log line with the
\* full Error() text, the Content-Type header, one status write, one body
\* write, at most one ID-suffix write.
C7_Order ==
    Rendered =>
        /\ Len(last.trace) \in {4, 5}
        /\ last.trace[1] = LogLine("Error: " \o ErrorText(heap, last.arg))
        /\ last.trace[2] = HeaderSet("Content-Type", "text/plain")
        /\ last.trace[3].ev = "WriteHeader"
        /\ \A i \in 4..Len(last.trace) : last.trace[i].ev = "Write"

\* C8: Error(nil), ErrLoc(nil) and Error of a nil *errDetail return nil,
\* allocate nothing and draw no ID.
C8_NilInNilOut ==
    (\/ last.op \in {"Error", "ErrLoc"} /\ last.arg = Nil
     \/ last.op = "Error" /\ last.arg = NilDetail)
    => last.ret = Nil /\ Len(heap) = last.pre /\ rng = last.seed

\* ErrLoc(nil) was called after the handler had built an error.
C8_Witness ==
    /\ last.op = "ErrLoc"
    /\ last.arg = Nil
    /\ last.ret = Nil
    /\ Len(heap) > 1

\* C9: WriteError(w, nil) returns nil, logs nothing and does nothing to w.
C9_RenderNil ==
    last.op = "WriteError" /\ last.arg = Nil =>
        last.ret = Nil /\ last.trace = <<>>

\* WriteError(w, nil) was called on a sink whose writes would fail.
C9_Witness ==
    /\ last.op = "WriteError"
    /\ last.arg = Nil
    /\ last.fails = {1, 2}

\* C10: every Annotated Error provides all four capabilities, so WriteError
\* takes status, body text and ID from the outermost Annotated Error of the
\* chain, whatever the layers under it carry.
C10_OutermostMasks ==
    /\ \A r \in Refs(heap) : IsDetail(heap, r) =>
           \A cap \in Caps : As(heap, r, cap) = r
    /\ Rendered /\ Details(heap, last.arg) # <<>> =>
           LET d == heap[Details(heap, last.arg)[1]]
           IN /\ Statuses(last.trace)
                     = <<StatusWrite(IF d.code = 0 THEN 500 ELSE d.code)>>
              /\ Written(last.trace)
                     = (IF d.show = "" THEN "internal error" ELSE d.show)
                       \o " [ID:" \o d.id \o "]"

====
